---- MODULE Spec2Model ----
(***************************************************************************)
(* State-machine model of CellSearch.cpp (LTE-Cell-Scanner): command line  *)
(* validation, construction of the search grids, the per-center-frequency  *)
(* sweep with its candidate pipeline, dedup() and the final report.        *)
(*                                                                         *)
(* Units.  Center frequencies are integers in units of 10 kHz (1 MHz is    *)
(* 100, the 100 kHz raster is 10).  ppm is in units of 100 ppm (the        *)
(* default 100 ppm is 1).  correction is in units of 1e-6 (1.0 is          *)
(* 1000000).  Frequency offsets of f_search_set are in Hz.                 *)
(***************************************************************************)
EXTENDS Integers, Sequences, FiniteSets, TLC

VARIABLES
  argv,               \* the command line, as parsed by getopt_long
  xcorr_out,          \* what xcorr_pss measures on the successive captures
  pc,                 \* position of main
  exit_code,          \* <<>> while running, <<status>> once exit() was called
  warnings,           \* warnings printed by parse_commandline
  freq_start, freq_end, ppm, correction, save_cap, use_recorded_data,
  n_extra, f_search_set, fc_search_set, n_fc,
  fci,                \* index of the center-frequency loop (0-based)
  capbuf,             \* center frequency the current capture buffer holds
  detected_cells,     \* vector < list<Cell> >, one list per center frequency
  iterator,           \* position in detected_cells[fci] (1-based)
  next_uid,           \* number of raw peaks created so far
  cells_final,        \* list <Cell> built by dedup()
  log                 \* history: the calls made so far, in order

vars == <<argv, xcorr_out, pc, exit_code, warnings, freq_start, freq_end, ppm,
          correction, save_cap, use_recorded_data, n_extra, f_search_set,
          fc_search_set, n_fc, fci, capbuf, detected_cells, iterator,
          next_uid, cells_final, log>>

cfgvars == <<freq_start, freq_end, ppm, correction, save_cap,
             use_recorded_data>>
gridvars == <<n_extra, f_search_set, fc_search_set, n_fc>>
dedupvars == <<cells_final>>

----------------------------------------------------------------------------
(* Bounds and sample values of the inputs.                                 *)

\* Largest number of raw peaks peak_search returns over a whole run.
MaxPeaks == 2

\* Largest number of confirmed candidates handed to dedup when dedup is
\* examined on its own.
MaxCells == 3

\* pss_pow values of raw peaks.
PowSet == {1, 2, 3}
\* n_id_2 values of raw peaks.
Id2Set == {0}
\* n_id_1 values sss_detect finds (besides the failure value -1).
Id1Set == {0, 1}
\* freq_superfine values tfoec estimates, in units of 10 kHz.
SuperfineSet == {0, 100}
\* n_rb_dl values decode_mib finds (besides the failure value -1).
NrbSet == {6}
\* sp_incoherent values (noise power of one frequency bin) xcorr_pss
\* estimates.
SpSet == {0, 1, 2}
\* n_comb_xc values (number of correlations combined) xcorr_pss reports.
NCombSet == {1, 2, 3, 4}

----------------------------------------------------------------------------
(* Integer widths and numeric helpers.                                     *)

Pow2_16 == 65536

\* Conversion of a non-negative int to uint16.
ToUint16(x) == x % Pow2_16

Abs(x) == IF x < 0 THEN -x ELSE x

\* itpp::round(f/100e3)*100e3 for f in units of 10 kHz: round half away
\* from zero to the 100 kHz raster.
RoundRaster(f) ==
  IF f >= 0 THEN ((f + 5) \div 10) * 10 ELSE -(((-f + 5) \div 10) * 10)

\* itpp_ext::matlab_range(first, incr, last): the arithmetic progression
\* first, first+incr, ... not exceeding last, kept as first/incr/length.
matlab_range(first, incr, last) ==
  [first |-> first, incr |-> incr,
   n |-> IF last < first THEN 0 ELSE (last - first) \div incr + 1]

\* length(v) and v(i), i counted from 0, of such a vector.
length(v) == v.n
elem(v, i) == v.first + i * v.incr

EmptyVec == [first |-> 0, incr |-> 1, n |-> 0]

----------------------------------------------------------------------------
(* The command line.                                                       *)

\* Value of freq_start / freq_end when the option is not given.
FreqUnset == -1

DefaultArgs ==
  [help |-> FALSE, bad |-> FALSE, s |-> 100, e |-> FreqUnset, p |-> 1,
   c |-> 1000000, r |-> FALSE, l |-> FALSE]

\* Command lines of complete runs.
ArgsMain ==
  { DefaultArgs,
    [DefaultArgs EXCEPT !.help = TRUE],
    [DefaultArgs EXCEPT !.bad = TRUE],
    [DefaultArgs EXCEPT !.s = FreqUnset],
    [DefaultArgs EXCEPT !.e = 110],
    [DefaultArgs EXCEPT !.e = 655450],
    [DefaultArgs EXCEPT !.s = 110, !.e = 100],
    [DefaultArgs EXCEPT !.p = -1],
    [DefaultArgs EXCEPT !.r = TRUE, !.l = TRUE],
    [DefaultArgs EXCEPT !.l = TRUE],
    [DefaultArgs EXCEPT !.s = 110, !.c = 1000500, !.r = TRUE] }

\* The measurement xcorr_pss makes when the measurements are not the
\* subject: unit noise power, one correlation combined.
DefaultXcorrOut == <<[sp_incoherent |-> 1, n_comb_xc |-> 1]>>

\* Command lines for the configuration stage alone.
ArgsCfg ==
  { [DefaultArgs EXCEPT !.help = TRUE], [DefaultArgs EXCEPT !.bad = TRUE] }
  \cup
  [help : {FALSE}, bad : {FALSE},
   s : {FreqUnset, 99, 100, 104, 105, 106, 110, 2500, 100000},
   e : {FreqUnset, 0, 100, 102, 107, 110, 114, 120, 100010, 655450,
        655470},
   p : {-1, 0, 1, 2, 3},
   c : {1000000, 1000500, 1002000, 998000},
   r : BOOLEAN, l : BOOLEAN]
  \cup
  [help : {FALSE}, bad : {FALSE}, s : {655360}, e : {FreqUnset, 655370},
   p : {499, 500, 501}, c : {1000000}, r : {FALSE}, l : {FALSE}]

InitWith(args, meas) ==
  /\ argv \in args
  /\ xcorr_out \in meas
  /\ pc = "parse"
  /\ exit_code = <<>>
  /\ warnings = {}
  /\ freq_start = FreqUnset
  /\ freq_end = FreqUnset
  /\ ppm = 1
  /\ correction = 1000000
  /\ save_cap = FALSE
  /\ use_recorded_data = FALSE
  /\ n_extra = 0
  /\ f_search_set = EmptyVec
  /\ fc_search_set = EmptyVec
  /\ n_fc = 0
  /\ fci = 0
  /\ capbuf = FreqUnset
  /\ detected_cells = <<>>
  /\ iterator = 1
  /\ next_uid = 0
  /\ cells_final = <<>>
  /\ log = <<>>

Init == InitWith(ArgsMain, {DefaultXcorrOut})
InitCfg == InitWith(ArgsCfg, {DefaultXcorrOut})

----------------------------------------------------------------------------
(* parse_commandline                                                       *)

\* exit(-1): the process ends with status 255.
ExitFailure == 255
ExitSuccess == 0

\* freq_start after the raster check of lines 194-197.
StartRounded(a) == RoundRaster(a.s)

\* freq_end after the default of lines 198-200, before its own rounding.
EndDefaulted(a) == IF a.e = FreqUnset THEN StartRounded(a) ELSE a.e

\* ParseError without the test of lines 222-225.
ParseError_NoExclusive(a) ==
  IF a.help THEN "help"
  ELSE IF a.bad THEN "syntax"
  ELSE IF a.s < 100 THEN "start"
  ELSE IF EndDefaulted(a) < StartRounded(a) THEN "end"
  ELSE IF a.p < 0 THEN "ppm"
  ELSE "none"

\* The point at which parse_commandline calls exit(-1) on command line a,
\* in the order of the code, or "none" when it returns.
ParseError(a) ==
  IF a.help THEN "help"
  ELSE IF a.bad THEN "syntax"
  ELSE IF a.s < 100 THEN "start"
  ELSE IF EndDefaulted(a) < StartRounded(a) THEN "end"
  ELSE IF a.p < 0 THEN "ppm"
  ELSE IF a.r /\ a.l THEN "record_load"
  ELSE "none"

\* The warnings printed before parse_commandline returns or exits.
ParseWarnings(a) ==
  LET err == ParseError(a)
      pastStart == err \in {"end", "ppm", "record_load", "none"}
      pastEnd == err \in {"ppm", "record_load", "none"}
      pastPpm == err \in {"record_load", "none"}
  IN (IF pastStart /\ a.s # RoundRaster(a.s)
      THEN {"start_rounded"} ELSE {})
     \cup (IF pastEnd /\ EndDefaulted(a) # RoundRaster(EndDefaulted(a))
           THEN {"end_rounded"} ELSE {})
     \cup (IF pastPpm /\ a.p > 2 THEN {"ppm_high"} ELSE {})
     \cup (IF pastPpm /\ Abs(a.c - 1000000) > 1000
           THEN {"correction"} ELSE {})

ParseCommandline ==
  /\ pc = "parse"
  /\ warnings' = ParseWarnings(argv)
  /\ IF ParseError(argv) # "none"
     THEN /\ pc' = "exit"
          /\ exit_code' = <<ExitFailure>>
          /\ UNCHANGED cfgvars
     ELSE /\ pc' = "setup"
          /\ freq_start' = StartRounded(argv)
          /\ freq_end' = RoundRaster(EndDefaulted(argv))
          /\ ppm' = argv.p
          /\ correction' = argv.c
          /\ save_cap' = argv.r
          /\ use_recorded_data' = argv.l
          /\ UNCHANGED exit_code
  /\ UNCHANGED <<argv, xcorr_out, gridvars, fci, capbuf, detected_cells, iterator,
                 next_uid, dedupvars, log>>

----------------------------------------------------------------------------
(* main, lines 325-331: the search grids.                                  *)

\* floor_i((freq_start*ppm/1e6+2.5e3)/5e3) before its conversion to
\* uint16: fs in 10 kHz, p in 100 ppm, so freq_start*ppm/1e6 is fs*p Hz.
NExtraExact(fs, p) == (fs * p + 2500) \div 5000

\* NExtra without the half step of 2.5e3 in the numerator.
NExtra_NoHalfStep(fs, p) == ToUint16((fs * p) \div 5000)

NExtra(fs, p) == ToUint16(NExtraExact(fs, p))

SetupSearch ==
  /\ pc = "setup"
  /\ n_extra' = NExtra(freq_start, ppm)
  /\ f_search_set' = matlab_range(-n_extra' * 5000, 5000, n_extra' * 5000)
  /\ fc_search_set' = matlab_range(freq_start, 10, freq_end)
  /\ n_fc' = ToUint16(length(fc_search_set'))
  /\ detected_cells' = [i \in 1..n_fc' |-> <<>>]
  /\ fci' = 0
  /\ pc' = IF 0 < n_fc' THEN "capture" ELSE "dedup"
  /\ UNCHANGED <<argv, xcorr_out, exit_code, warnings, cfgvars, capbuf, iterator,
                 next_uid, dedupvars, log>>

NextCfg == ParseCommandline \/ SetupSearch

SpecCfg == InitCfg /\ [][NextCfg]_vars

----------------------------------------------------------------------------
(* Cells.                                                                  *)

\* A raw peak as peak_search creates it: n_id_1 and n_rb_dl are still -1.
Cell(uid, fc, pow, id2) ==
  [uid |-> uid, fc |-> fc, pss_pow |-> pow, n_id_2 |-> id2, n_id_1 |-> -1,
   freq_superfine |-> 0, n_rb_dl |-> -1]

\* Cell::n_id_cell()
n_id_cell(c) ==
  IF c.n_id_1 = -1 \/ c.n_id_2 = -1 THEN -1 ELSE c.n_id_2 + 3 * c.n_id_1

\* list::erase(iterator): the list without its element at position i.
Erase(lst, i) == [j \in 1..(Len(lst) - 1) |-> IF j < i THEN lst[j] ELSE lst[j + 1]]

\* A call as the log records it: the operation, the raw peak it is made on
\* (-1 when it is not made on a peak), the index of the center frequency,
\* the center frequency of the capture buffer, and the value returned.
CallAt(op, uid, f, buf, ret) ==
  [op |-> op, uid |-> uid, fci |-> f, buf |-> buf, ret |-> ret]

Call(op, uid, ret) == CallAt(op, uid, fci, capbuf, ret)

\* The call of capture_data (line 342) for sweep position f, with the
\* correction and the record and replay flags it is given.
CaptureCall(f, buf, corr, rec, load) ==
  [op |-> "capture_data", uid |-> -1, fci |-> f, buf |-> buf, ret |-> 0,
   correction |-> corr, save_cap |-> rec, use_recorded_data |-> load]

CurList == detected_cells[fci + 1]
CurCell == CurList[iterator]
SetCur(c) == [detected_cells EXCEPT ![fci + 1][iterator] = c]
EraseCur == [detected_cells EXCEPT ![fci + 1] = Erase(CurList, iterator)]

----------------------------------------------------------------------------
(* main, lines 360-364: the threshold vector.  Z_th1 has one element per   *)
(* element of sp_incoherent, each computed alike; the model follows one    *)
(* element.  Values are exact fractions num/den.                           *)

RECURSIVE GCD(_, _)
GCD(a, b) == IF b = 0 THEN a ELSE GCD(b, a % b)

\* The fraction a/b in lowest terms.
Ratio(a, b) == [num |-> a \div GCD(a, b), den |-> b \div GCD(a, b)]

LessQ(x, y) == x.num * y.den < y.num * x.den

DS_COMB_ARM == 2
thresh1_n_nines == 12
FS_LTE == 30720000

\* chi2cdf_inv(1 - 10^-12, dof) in units of 0.1, for the degrees of
\* freedom 2*n_comb_xc*(2*DS_COMB_ARM+1) of n_comb_xc = 1 .. 5.
chi2cdf_inv_12nines(dof) ==
  IF dof = 10 THEN 785
  ELSE IF dof = 20 THEN 1006
  ELSE IF dof = 30 THEN 1201
  ELSE IF dof = 40 THEN 1381
  ELSE 1553

\* Line 362, in units of 0.1.
R_th1(n_comb) == chi2cdf_inv_12nines(2 * n_comb * (2 * DS_COMB_ARM + 1))

\* Line 363.
rx_cutoff == Ratio((6 * 12 * 15000) \div 2 + 4 * 15000, (FS_LTE \div 16) \div 2)

\* Z_th1 with the division by n_comb_xc left out.
Z_th1_NotPerCorrelation(sp, n_comb) ==
  Ratio(R_th1(n_comb) * sp * rx_cutoff.den,
        rx_cutoff.num * 137 * 2 * (2 * DS_COMB_ARM + 1))

\* Line 364, one element, in units of 0.1:
\* R_th1*sp_incoherent/rx_cutoff/137/2/n_comb_xc/(2*DS_COMB_ARM+1).
Z_th1(sp, n_comb) ==
  Ratio(R_th1(n_comb) * sp * rx_cutoff.den,
        rx_cutoff.num * 137 * 2 * n_comb * (2 * DS_COMB_ARM + 1))

\* What xcorr_pss measures on the capture of sweep position f.
Measured(f) == xcorr_out[(f % Len(xcorr_out)) + 1]

\* The call of xcorr_pss (line 358) with the measurement m it returns and
\* the threshold computed from it.
XcorrCall(f, buf, m) ==
  [op |-> "xcorr_pss", uid |-> -1, fci |-> f, buf |-> buf, ret |-> 0,
   sp_incoherent |-> m.sp_incoherent, n_comb_xc |-> m.n_comb_xc,
   Z_th1 |-> Z_th1(m.sp_incoherent, m.n_comb_xc)]

----------------------------------------------------------------------------
(* main, lines 333-430: the sweep over the center frequencies.             *)

CaptureData ==
  /\ pc = "capture"
  /\ capbuf' = elem(fc_search_set, fci)
  /\ log' = Append(log, CaptureCall(fci, capbuf', correction, save_cap,
                                    use_recorded_data))
  /\ pc' = "xcorr"
  /\ UNCHANGED <<argv, xcorr_out, exit_code, warnings, cfgvars, gridvars, fci,
                 detected_cells, iterator, next_uid, dedupvars>>

XcorrPss ==
  /\ pc = "xcorr"
  /\ log' = Append(log, XcorrCall(fci, capbuf, Measured(fci)))
  /\ pc' = "peak_search"
  /\ UNCHANGED <<argv, xcorr_out, exit_code, warnings, cfgvars, gridvars, fci, capbuf,
                 detected_cells, iterator, next_uid, dedupvars>>

PeakSearch ==
  /\ pc = "peak_search"
  /\ \E k \in 0..(MaxPeaks - next_uid) :
       \E pk \in [1..k -> PowSet \X Id2Set] :
         /\ detected_cells' =
              [detected_cells EXCEPT ![fci + 1] =
                 [i \in 1..k |->
                    Cell(next_uid + i, elem(fc_search_set, fci),
                         pk[i][1], pk[i][2])]]
         /\ next_uid' = next_uid + k
  /\ iterator' = 1
  /\ log' = Append(log, Call("peak_search", -1, 0))
  /\ pc' = "sss_detect"
  /\ UNCHANGED <<argv, xcorr_out, exit_code, warnings, cfgvars, gridvars, fci, capbuf,
                 dedupvars>>

\* SssDetect without the erase and continue of lines 393-394.
SssDetect_NoContinue ==
  /\ pc = "sss_detect"
  /\ iterator <= Len(CurList)
  /\ \E id1 \in Id1Set \cup {-1} :
       /\ log' = Append(log, Call("sss_detect", CurCell.uid, id1))
       /\ detected_cells' = SetCur([CurCell EXCEPT !.n_id_1 = id1])
       /\ pc' = "pss_sss_foe"
  /\ UNCHANGED <<argv, xcorr_out, exit_code, warnings, cfgvars, gridvars, fci, capbuf,
                 iterator, next_uid, dedupvars>>

\* SssDetect stepping the iterator once more after the erase of line 393.
SssDetect_SkipsAfterErase ==
  /\ pc = "sss_detect"
  /\ iterator <= Len(CurList)
  /\ \E id1 \in Id1Set \cup {-1} :
       /\ log' = Append(log, Call("sss_detect", CurCell.uid, id1))
       /\ IF id1 = -1
          THEN /\ detected_cells' = EraseCur
               /\ iterator' = iterator + 1
               /\ pc' = "sss_detect"
          ELSE /\ detected_cells' = SetCur([CurCell EXCEPT !.n_id_1 = id1])
               /\ iterator' = iterator
               /\ pc' = "pss_sss_foe"
  /\ UNCHANGED <<argv, xcorr_out, exit_code, warnings, cfgvars, gridvars,
                 fci, capbuf, next_uid, dedupvars>>

\* SssDetect stepping over a peak without SSS instead of erasing it.
SssDetect_LeavesRejected ==
  /\ pc = "sss_detect"
  /\ iterator <= Len(CurList)
  /\ \E id1 \in Id1Set \cup {-1} :
       /\ log' = Append(log, Call("sss_detect", CurCell.uid, id1))
       /\ detected_cells' = SetCur([CurCell EXCEPT !.n_id_1 = id1])
       /\ IF id1 = -1
          THEN /\ iterator' = iterator + 1
               /\ pc' = "sss_detect"
          ELSE /\ iterator' = iterator
               /\ pc' = "pss_sss_foe"
  /\ UNCHANGED <<argv, xcorr_out, exit_code, warnings, cfgvars, gridvars,
                 fci, capbuf, next_uid, dedupvars>>

\* SssDetect ending the run with exit(-1) when it finds no SSS.
SssDetect_FatalOnReject ==
  /\ pc = "sss_detect"
  /\ iterator <= Len(CurList)
  /\ \E id1 \in Id1Set \cup {-1} :
       /\ log' = Append(log, Call("sss_detect", CurCell.uid, id1))
       /\ detected_cells' = SetCur([CurCell EXCEPT !.n_id_1 = id1])
       /\ IF id1 = -1
          THEN /\ pc' = "exit"
               /\ exit_code' = <<ExitFailure>>
          ELSE /\ pc' = "pss_sss_foe"
               /\ UNCHANGED exit_code
  /\ UNCHANGED <<argv, xcorr_out, warnings, cfgvars, gridvars, fci, capbuf,
                 iterator, next_uid, dedupvars>>

\* Lines 376-395: sss_detect, and the removal of a peak without SSS.
SssDetect ==
  /\ pc = "sss_detect"
  /\ iterator <= Len(CurList)
  /\ \E id1 \in Id1Set \cup {-1} :
       /\ log' = Append(log, Call("sss_detect", CurCell.uid, id1))
       /\ IF id1 = -1
          THEN /\ detected_cells' = EraseCur
               /\ pc' = "sss_detect"
          ELSE /\ detected_cells' = SetCur([CurCell EXCEPT !.n_id_1 = id1])
               /\ pc' = "pss_sss_foe"
  /\ UNCHANGED <<argv, xcorr_out, exit_code, warnings, cfgvars, gridvars, fci, capbuf,
                 iterator, next_uid, dedupvars>>

\* The calls of lines 398-414 on the peak of uid u, decode_mib returning
\* nrb.
RefineCalls(u, nrb) ==
  <<Call("pss_sss_foe", u, 0), Call("extract_tfg", u, 0),
    Call("tfoec", u, 0), Call("decode_mib", u, nrb)>>

\* RefineAndDecode without the erase and continue of lines 417-418.
RefineAndDecode_KeepsFailed ==
  /\ pc = "pss_sss_foe"
  /\ \E f \in SuperfineSet, nrb \in NrbSet \cup {-1} :
       /\ log' = log \o RefineCalls(CurCell.uid, nrb)
       /\ detected_cells' =
            SetCur([CurCell EXCEPT !.freq_superfine = f, !.n_rb_dl = nrb])
       /\ iterator' = iterator + 1
  /\ pc' = "sss_detect"
  /\ UNCHANGED <<argv, xcorr_out, exit_code, warnings, cfgvars, gridvars, fci, capbuf,
                 next_uid, dedupvars>>

\* Lines 397-428: pss_sss_foe, extract_tfg, tfoec (which sets
\* freq_superfine) and decode_mib, the removal of a peak without MIB, and
\* the step to the next peak.
RefineAndDecode ==
  /\ pc = "pss_sss_foe"
  /\ \E f \in SuperfineSet, nrb \in NrbSet \cup {-1} :
       /\ log' = log \o RefineCalls(CurCell.uid, nrb)
       /\ IF nrb = -1
          THEN /\ detected_cells' = EraseCur
               /\ iterator' = iterator
          ELSE /\ detected_cells' =
                    SetCur([CurCell EXCEPT !.freq_superfine = f,
                                           !.n_rb_dl = nrb])
               /\ iterator' = iterator + 1
  /\ pc' = "sss_detect"
  /\ UNCHANGED <<argv, xcorr_out, exit_code, warnings, cfgvars, gridvars, fci, capbuf,
                 next_uid, dedupvars>>

\* Line 376 false and line 333: the list is exhausted, next frequency.
NextFrequency ==
  /\ pc = "sss_detect"
  /\ iterator > Len(CurList)
  /\ fci' = ToUint16(fci + 1)
  /\ pc' = IF fci' < n_fc THEN "capture" ELSE "dedup"
  /\ UNCHANGED <<argv, xcorr_out, exit_code, warnings, cfgvars, gridvars, capbuf,
                 detected_cells, iterator, next_uid, dedupvars, log>>

----------------------------------------------------------------------------
(* dedup                                                                   *)

\* Lines 261-264: do the two cells match and are they close in frequency?
Match(a, b) ==
  /\ n_id_cell(a) = n_id_cell(b)
  /\ Abs((a.fc + a.freq_superfine) - (b.fc + b.freq_superfine)) < 100

\* DedupOne with the comparison of line 267 turned into >=.
DedupOne_ReplacesOnTie(cf, c) ==
  LET hits == {i \in 1..Len(cf) : Match(c, cf[i])}
  IN IF hits = {}
     THEN Append(cf, c)
     ELSE LET i == CHOOSE h \in hits : \A g \in hits : h <= g
          IN IF c.pss_pow >= cf[i].pss_pow
             THEN [cf EXCEPT ![i] = c]
             ELSE cf

\* DedupOne overwriting the last matching entry instead of stopping at the
\* first (no break at line 270).
DedupOne_LastMatch(cf, c) ==
  LET hits == {i \in 1..Len(cf) : Match(c, cf[i])}
  IN IF hits = {}
     THEN Append(cf, c)
     ELSE LET i == CHOOSE h \in hits : \A g \in hits : h >= g
          IN IF c.pss_pow > cf[i].pss_pow
             THEN [cf EXCEPT ![i] = c]
             ELSE cf

\* DedupOne overwriting the matching entry whatever the powers are.
DedupOne_ReplacesAlways(cf, c) ==
  LET hits == {i \in 1..Len(cf) : Match(c, cf[i])}
  IN IF hits = {}
     THEN Append(cf, c)
     ELSE LET i == CHOOSE h \in hits : \A g \in hits : h <= g
          IN [cf EXCEPT ![i] = c]

\* DedupOne with line 268 copying only the power of the incoming cell.
DedupOne_CopiesPowerOnly(cf, c) ==
  LET hits == {i \in 1..Len(cf) : Match(c, cf[i])}
  IN IF hits = {}
     THEN Append(cf, c)
     ELSE LET i == CHOOSE h \in hits : \A g \in hits : h <= g
          IN IF c.pss_pow > cf[i].pss_pow
             THEN [cf EXCEPT ![i].pss_pow = c.pss_pow]
             ELSE cf

\* Lines 256-278: one incoming cell c against the list cf.
DedupOne(cf, c) ==
  LET hits == {i \in 1..Len(cf) : Match(c, cf[i])}
  IN IF hits = {}
     THEN Append(cf, c)
     ELSE LET i == CHOOSE h \in hits : \A g \in hits : h <= g
          IN IF c.pss_pow > cf[i].pss_pow
             THEN [cf EXCEPT ![i] = c]
             ELSE cf

\* The cells of the lists of ll, in the order of the loops of lines 253-255.
RECURSIVE Flatten(_)
Flatten(ll) == IF ll = <<>> THEN <<>> ELSE Head(ll) \o Flatten(Tail(ll))

\* The loops of lines 253-281 over the cells cs, starting from the list cf.
RECURSIVE DedupAll(_, _)
DedupAll(cf, cs) ==
  IF cs = <<>> THEN cf ELSE DedupAll(DedupOne(cf, Head(cs)), Tail(cs))

\* The call of line 434.
Dedup ==
  /\ pc = "dedup"
  /\ cells_final' = DedupAll(<<>>, Flatten(detected_cells))
  /\ log' = Append(log, Call("dedup", -1, 0))
  /\ pc' = "report"
  /\ UNCHANGED <<argv, xcorr_out, exit_code, warnings, cfgvars, gridvars, fci, capbuf,
                 detected_cells, iterator, next_uid>>

----------------------------------------------------------------------------
(* dedup on its own: the states in which main calls dedup (line 434) after *)
(* a sweep of two center frequencies in which every raw peak was           *)
(* confirmed.                                                              *)

DedupArgs == [DefaultArgs EXCEPT !.e = 110]

\* The log of one center frequency f whose peaks first+1 .. first+n were
\* all confirmed.
RECURSIVE PeakCalls(_, _, _, _)
PeakCalls(first, n, f, buf) ==
  IF n = 0 THEN <<>>
  ELSE <<CallAt("sss_detect", first + 1, f, buf, 0),
         CallAt("pss_sss_foe", first + 1, f, buf, 0),
         CallAt("extract_tfg", first + 1, f, buf, 0),
         CallAt("tfoec", first + 1, f, buf, 0),
         CallAt("decode_mib", first + 1, f, buf, 0)>>
       \o PeakCalls(first + 1, n - 1, f, buf)

FrequencyCalls(first, n, f, buf) ==
  <<CaptureCall(f, buf, DedupArgs.c, DedupArgs.r, DedupArgs.l),
    XcorrCall(f, buf, DefaultXcorrOut[1]),
    CallAt("peak_search", -1, f, buf, 0)>>
  \o PeakCalls(first, n, f, buf)

\* The returned values of sss_detect and decode_mib, as the cells show them.
WithReturns(lg, cells) ==
  [i \in 1..Len(lg) |->
     IF lg[i].op = "sss_detect"
     THEN [lg[i] EXCEPT !.ret = cells[lg[i].uid].n_id_1]
     ELSE IF lg[i].op = "decode_mib"
     THEN [lg[i] EXCEPT !.ret = cells[lg[i].uid].n_rb_dl]
     ELSE lg[i]]

InitDedupOf(pows) ==
  \E k1 \in 0..MaxCells : \E k2 \in 0..(MaxCells - k1) :
    \E at \in [1..(k1 + k2) -> pows \X Id2Set \X Id1Set \X SuperfineSet
                               \X NrbSet] :
      LET fs == StartRounded(DedupArgs)
          fe == RoundRaster(EndDefaulted(DedupArgs))
          fcs == matlab_range(fs, 10, fe)
          mk(u, f) ==
            [Cell(u, elem(fcs, f), at[u][1], at[u][2])
               EXCEPT !.n_id_1 = at[u][3], !.freq_superfine = at[u][4],
                      !.n_rb_dl = at[u][5]]
          cells == [u \in 1..(k1 + k2) |->
                      mk(u, IF u <= k1 THEN 0 ELSE 1)]
      IN /\ argv = DedupArgs
         /\ xcorr_out = DefaultXcorrOut
         /\ pc = "dedup"
         /\ exit_code = <<>>
         /\ warnings = ParseWarnings(DedupArgs)
         /\ freq_start = fs
         /\ freq_end = fe
         /\ ppm = DedupArgs.p
         /\ correction = DedupArgs.c
         /\ save_cap = DedupArgs.r
         /\ use_recorded_data = DedupArgs.l
         /\ n_extra = NExtra(fs, DedupArgs.p)
         /\ f_search_set = matlab_range(-n_extra * 5000, 5000, n_extra * 5000)
         /\ fc_search_set = fcs
         /\ n_fc = ToUint16(length(fcs))
         /\ fci = 2
         /\ capbuf = elem(fcs, 1)
         /\ detected_cells = <<SubSeq(cells, 1, k1),
                               SubSeq(cells, k1 + 1, k1 + k2)>>
         /\ iterator = k2 + 1
         /\ next_uid = k1 + k2
         /\ cells_final = <<>>
         /\ log = WithReturns(FrequencyCalls(0, k1, 0, elem(fcs, 0))
                              \o FrequencyCalls(k1, k2, 1, elem(fcs, 1)),
                              cells)

InitDedup == InitDedupOf(PowSet)

\* The same states with two levels of pss_pow only: weaker, equal, stronger.
InitDedupTwoPowers == InitDedupOf({1, 2})

----------------------------------------------------------------------------
(* main, lines 436-477: the report and the exit.                           *)

\* CorrectionNew with the residual taken the wrong way round.
CorrectionNew_Inverted(corr, c) ==
  [correction |-> corr, true_location |-> c.fc - c.freq_superfine,
   crystal_freq_actual |-> c.fc]

\* Lines 463-468: the correction factor printed for cell c, the exact value
\* correction * true_location / crystal_freq_actual.
CorrectionNew(corr, c) ==
  [correction |-> corr, true_location |-> c.fc,
   crystal_freq_actual |-> c.fc - c.freq_superfine]

\* Lines 444-473: the line printed for cell c.
ReportRow(c) ==
  [op |-> "report_row", uid |-> -1, fci |-> fci, buf |-> capbuf, ret |-> 0,
   cell |-> c, correction_new |-> CorrectionNew(correction, c)]

ReportRows == [i \in 1..Len(cells_final) |-> ReportRow(cells_final[i])]

\* Report ending in exit(-1) when no cell was found.
Report_FailsWhenEmpty ==
  /\ pc = "report"
  /\ log' = Append(log \o ReportRows, Call("report", -1, Len(cells_final)))
  /\ exit_code' = IF cells_final = <<>> THEN <<ExitFailure>>
                  ELSE <<ExitSuccess>>
  /\ pc' = "exit"
  /\ UNCHANGED <<argv, xcorr_out, warnings, cfgvars, gridvars, fci, capbuf,
                 detected_cells, iterator, next_uid, dedupvars>>

Report ==
  /\ pc = "report"
  /\ log' = Append(log \o ReportRows, Call("report", -1, Len(cells_final)))
  /\ exit_code' = <<ExitSuccess>>
  /\ pc' = "exit"
  /\ UNCHANGED <<argv, xcorr_out, warnings, cfgvars, gridvars, fci, capbuf,
                 detected_cells, iterator, next_uid, dedupvars>>

Next ==
  \/ ParseCommandline
  \/ SetupSearch
  \/ CaptureData
  \/ XcorrPss
  \/ PeakSearch
  \/ SssDetect
  \/ RefineAndDecode
  \/ NextFrequency
  \/ Dedup
  \/ Report

Spec == Init /\ [][Next]_vars

\* main is one sequential thread and every function it calls returns (or
\* exits): whenever a step is possible, a step is taken.
SpecLive == Init /\ [][Next]_vars /\ WF_vars(Next)

NextDedup == Dedup \/ Report

\* The sweep of two center frequencies under every pair of measurements,
\* followed as long as peak_search finds no peak.
InitThreshold ==
  InitWith({DedupArgs},
           [1..2 -> [sp_incoherent : SpSet, n_comb_xc : NCombSet]])

NextThreshold ==
  \/ ParseCommandline
  \/ SetupSearch
  \/ CaptureData
  \/ XcorrPss
  \/ PeakSearch
  \/ NextFrequency

SpecThreshold == InitThreshold /\ [][NextThreshold]_vars

SpecDedup == InitDedup /\ [][NextDedup]_vars

SpecDedupTwoPowers == InitDedupTwoPowers /\ [][NextDedup]_vars

----------------------------------------------------------------------------
(* Properties of dedup.                                                    *)

Range(f) == {f[i] : i \in DOMAIN f}

Perms(n) == {f \in [1..n -> 1..n] : \A i, j \in 1..n : f[i] = f[j] => i = j}

CorrectedFreq(c) == c.fc + c.freq_superfine

\* "The same physical cell": equal identity, corrected frequencies less
\* than 1 MHz apart.
SamePhysicalCell(a, b) ==
  /\ n_id_cell(a) = n_id_cell(b)
  /\ Abs(CorrectedFreq(a) - CorrectedFreq(b)) < 100

DedupFinished == pc \in {"report", "exit"} /\ exit_code # <<ExitFailure>>

\* C1: once dedup has run, cells_final holds no two distinct entries that
\* are the same physical cell (equal n_id_cell, corrected frequencies less
\* than 1 MHz apart).
C1_OneEntryPerCell ==
  DedupFinished =>
    \A i, j \in 1..Len(cells_final) :
      i # j => ~SamePhysicalCell(cells_final[i], cells_final[j])

\* C2: with pairwise distinct pss_pow, every processing order of the
\* confirmed candidates leaves the same set of survivors, and every survivor
\* is the strongest of the candidates that match it.
C2_OrderIndependent ==
  LET cs == Flatten(detected_cells)
      n == Len(cs)
  IN (DedupFinished
      /\ \A i, j \in 1..n : i # j => cs[i].pss_pow # cs[j].pss_pow)
     => /\ \A f \in Perms(n) :
             Range(DedupAll(<<>>, [i \in 1..n |-> cs[f[i]]]))
               = Range(cells_final)
        /\ \A i \in 1..Len(cells_final) : \A j \in 1..n :
             SamePhysicalCell(cells_final[i], cs[j])
               => cs[j].pss_pow <= cells_final[i].pss_pow

\* The case of C3: dedup has run on exactly two confirmed candidates of
\* equal n_id_cell.
TwoSameIdentity ==
  /\ DedupFinished
  /\ Len(Flatten(detected_cells)) = 2
  /\ n_id_cell(Flatten(detected_cells)[1])
       = n_id_cell(Flatten(detected_cells)[2])

\* C3 as stated: of two candidates of equal n_id_cell less than 1 MHz
\* apart exactly one survives, the one of strictly greater pss_pow; at
\* 1 MHz or more apart both survive.
C3_StrictlyGreaterSurvives ==
  LET cs == Flatten(detected_cells)
  IN TwoSameIdentity =>
       IF Abs(CorrectedFreq(cs[1]) - CorrectedFreq(cs[2])) < 100
       THEN \E w \in {1, 2} :
              /\ cs[w].pss_pow > cs[3 - w].pss_pow
              /\ cells_final = <<cs[w]>>
       ELSE Len(cells_final) = 2 /\ Range(cells_final) = {cs[1], cs[2]}

\* C3 amended: of two candidates of equal n_id_cell less than 1 MHz apart
\* exactly one survives, the one of greater pss_pow or, when the powers are
\* equal, the one processed first; at 1 MHz or more apart both survive.
C3_GreaterOrFirstSurvives ==
  LET cs == Flatten(detected_cells)
  IN TwoSameIdentity =>
       IF Abs(CorrectedFreq(cs[1]) - CorrectedFreq(cs[2])) < 100
       THEN cells_final =
              <<IF cs[2].pss_pow > cs[1].pss_pow THEN cs[2] ELSE cs[1]>>
       ELSE Len(cells_final) = 2 /\ Range(cells_final) = {cs[1], cs[2]}

\* Witness of C3: two candidates of equal identity and equal power, less
\* than 1 MHz apart, were merged into one entry.
C3_Witness ==
  /\ TwoSameIdentity
  /\ Abs(CorrectedFreq(Flatten(detected_cells)[1])
         - CorrectedFreq(Flatten(detected_cells)[2])) < 100
  /\ Flatten(detected_cells)[1].pss_pow = Flatten(detected_cells)[2].pss_pow
  /\ Len(cells_final) = 1

----------------------------------------------------------------------------
(* Properties of the candidate pipeline.                                   *)

\* The calls of the log that were made on raw peak u, in order.
CallsOn(u) == SelectSeq(log, LAMBDA e : e.uid = u)

\* Raw peak u was rejected: sss_detect or decode_mib returned -1 for it.
Rejected(u) ==
  \E i \in 1..Len(log) :
    /\ log[i].uid = u
    /\ log[i].op \in {"sss_detect", "decode_mib"}
    /\ log[i].ret = -1

\* C4: every entry of cells_final has passed both rejecting stages (n_id_1
\* and n_rb_dl are not -1), and no raw peak for which sss_detect or
\* decode_mib returned -1 is in cells_final.
C4_OnlyConfirmedReported ==
  \A i \in 1..Len(cells_final) :
    /\ cells_final[i].n_id_1 # -1
    /\ cells_final[i].n_rb_dl # -1
    /\ ~Rejected(cells_final[i].uid)

\* Witness of C4: a report with an entry, in a run in which another raw
\* peak was rejected by sss_detect or decode_mib.
C4_Witness ==
  /\ pc = "exit"
  /\ Len(cells_final) >= 1
  /\ \E u \in 1..next_uid : Rejected(u)

Stages == <<"sss_detect", "pss_sss_foe", "extract_tfg", "tfoec", "decode_mib">>

\* The calls cs, all on one raw peak, are a prefix of the five stages in
\* their order, with nothing after a call that returned -1.
InStageOrder(cs) ==
  /\ Len(cs) <= Len(Stages)
  /\ \A k \in 1..Len(cs) :
       /\ cs[k].op = Stages[k]
       /\ cs[k].ret = -1 => k = Len(cs)

\* C5: the stages invoked on one raw peak form a prefix of sss_detect,
\* pss_sss_foe, extract_tfg, tfoec, decode_mib, in that order, and no stage
\* is invoked on a peak after a stage rejected it; in particular a peak
\* whose sss_detect returned n_id_1 = -1 sees no other stage.
C5_StagesInOrder ==
  \A u \in 1..next_uid : InStageOrder(CallsOn(u))

\* Witness of C5: at the end of a run one peak went through all five
\* stages and another was dropped right after sss_detect.
C5_Witness ==
  /\ pc = "exit"
  /\ \E u \in 1..next_uid : Len(CallsOn(u)) = 5
  /\ \E u \in 1..next_uid :
       Len(CallsOn(u)) = 1 /\ CallsOn(u)[1].ret = -1

----------------------------------------------------------------------------
(* Properties of the configuration stage.                                  *)

Accepted == pc # "parse" /\ exit_code # <<ExitFailure>>

\* C6: a command line with freq_start > freq_end >= 0, with
\* freq_start < 1 MHz or with ppm < 0 ends in exit(-1).
C6_BadRangeFails ==
  (/\ pc # "parse"
   /\ \/ argv.s > argv.e /\ argv.e >= 0
      \/ argv.s < 100
      \/ argv.p < 0)
  => exit_code = <<ExitFailure>>

\* freq_start*ppm/1e6 + 2500 in Hz.
ErrorBound == freq_start * ppm + 2500

SetupDone == pc \notin {"parse", "setup"} /\ exit_code # <<ExitFailure>>

\* Symmetry and spacing of f_search_set.
SymmetricSpaced5000 ==
  /\ \A i \in 0..(length(f_search_set) - 1) :
       elem(f_search_set, i)
         = -elem(f_search_set, length(f_search_set) - 1 - i)
  /\ \A i \in 0..(length(f_search_set) - 2) :
       elem(f_search_set, i + 1) - elem(f_search_set, i) = 5000

Largest(v) == elem(v, length(v) - 1)

\* C7 as stated: f_search_set is symmetric around zero with 5000 Hz
\* spacing, has floor((freq_start*ppm/1e6+2500)/5000) points on each side
\* of zero, and its largest element is at least freq_start*ppm/1e6+2500.
C7_GridOverCovers ==
  SetupDone =>
    /\ SymmetricSpaced5000
    /\ length(f_search_set) = 2 * (ErrorBound \div 5000) + 1
    /\ Largest(f_search_set) >= ErrorBound

\* C7 amended: f_search_set is symmetric around zero with 5000 Hz spacing,
\* has floor((freq_start*ppm/1e6+2500)/5000) modulo 65536 points on each
\* side of zero, its largest element is at most freq_start*ppm/1e6+2500
\* and, when that count is below 65536, more than freq_start*ppm/1e6-2500.
C7_GridWithinHalfStep ==
  SetupDone =>
    /\ SymmetricSpaced5000
    /\ length(f_search_set) = 2 * ((ErrorBound \div 5000) % Pow2_16) + 1
    /\ Largest(f_search_set) <= ErrorBound
    /\ (ErrorBound \div 5000 < Pow2_16)
         => Largest(f_search_set) > ErrorBound - 5000

\* Witness of C7: a grid with points on both sides of zero whose largest
\* element is strictly below freq_start*ppm/1e6+2500.
C7_Witness ==
  /\ SetupDone
  /\ n_extra >= 1
  /\ length(f_search_set) = 2 * n_extra + 1
  /\ Largest(f_search_set) < ErrorBound

\* The center frequencies captured so far, in order.
Captured ==
  LET caps == SelectSeq(log, LAMBDA e : e.op = "capture_data")
  IN [i \in 1..Len(caps) |-> caps[i].buf]

\* C8: the sweep examines every 100 kHz point from freq_start to freq_end
\* once and in ascending order, so that the number of iterations is
\* (freq_end - freq_start)/100 kHz + 1; without an end frequency the single
\* point freq_start is examined.
C8_EveryRasterPoint ==
  (DedupFinished /\ pc = "exit") =>
    /\ Len(Captured) = (freq_end - freq_start) \div 10 + 1
    /\ n_fc = (freq_end - freq_start) \div 10 + 1
    /\ \A i \in 1..Len(Captured) : Captured[i] = freq_start + (i - 1) * 10
    /\ argv.e = FreqUnset => Captured = <<freq_start>>

\* The run completed the sweep: dedup and the report were reached.
SweepCompleted == \E i \in 1..Len(log) : log[i].op = "report"

\* C9: the exit code is nonzero after a configuration failure or a help
\* request and zero after a completed sweep; a sweep in which every center
\* frequency yields no confirmed candidate ends with an empty cells_final
\* and exit code zero.
C9_ExitCodes ==
  pc = "exit" =>
    /\ (argv.help \/ argv.bad \/ argv.s < 100 \/ argv.p < 0
        \/ (argv.r /\ argv.l)
        \/ (argv.e # FreqUnset /\ argv.e < RoundRaster(argv.s)))
         => exit_code # <<ExitSuccess>>
    /\ SweepCompleted => exit_code = <<ExitSuccess>>
    /\ ~SweepCompleted => exit_code # <<ExitSuccess>>
    /\ (SweepCompleted /\ \A i \in 1..Len(detected_cells) :
                            detected_cells[i] = <<>>)
         => cells_final = <<>> /\ exit_code = <<ExitSuccess>>

\* Witness of C9: a sweep over two center frequencies that examined peaks,
\* confirmed none and exited with code zero and an empty report.
C9_Witness ==
  /\ pc = "exit"
  /\ SweepCompleted
  /\ n_fc = 2
  /\ next_uid >= 1
  /\ cells_final = <<>>
  /\ exit_code = <<ExitSuccess>>

\* The outcome of the validation with the warning blocks of lines 194-197,
\* 205-208 and 214-220 left out.
AcceptedWithoutWarnings(a) ==
  ~( \/ a.help
     \/ a.bad
     \/ a.s < 100
     \/ (a.e # FreqUnset /\ a.e < a.s)
     \/ a.p < 0
     \/ (a.r /\ a.l) )

\* C10: the warnings do not change control flow: a command line is
\* accepted exactly when it is accepted with the warning blocks left out.
C10_WarningsAdvisory ==
  pc # "parse" => (Accepted <=> AcceptedWithoutWarnings(argv))

----------------------------------------------------------------------------
(* Properties of the capture.                                              *)

\* The calls of capture_data made so far, in order.
Captures == SelectSeq(log, LAMBDA e : e.op = "capture_data")

\* C11: a command line that requests both record and replay ends in
\* exit(-1) without any capture; capture_data is never called with both
\* flags true; and a run that ends in exit(-1) has made no capture.
C11_RecordReplayExclusive ==
  /\ (pc # "parse" /\ argv.r /\ argv.l)
       => exit_code = <<ExitFailure>> /\ Captures = <<>>
  /\ \A i \in 1..Len(Captures) :
       ~(Captures[i].save_cap /\ Captures[i].use_recorded_data)
  /\ exit_code = <<ExitFailure>> => Captures = <<>>

\* Witness of C11: the command line asked for record and replay, nothing
\* else was wrong with it, and the run ended in exit(-1) with no capture.
C11_Witness ==
  /\ pc = "exit"
  /\ argv.r /\ argv.l
  /\ ~argv.help /\ ~argv.bad /\ argv.s >= 100 /\ argv.p >= 0
  /\ exit_code = <<ExitFailure>>
  /\ Captures = <<>>

----------------------------------------------------------------------------
(* Properties of the report.                                               *)

\* The sweep had two adjacent center frequencies and each yielded exactly
\* one confirmed candidate, the two of equal n_id_cell and with corrected
\* frequencies less than 1 MHz apart.
TwoAdjacentSameCell ==
  /\ DedupFinished
  /\ Len(detected_cells) = 2
  /\ Len(detected_cells[1]) = 1
  /\ Len(detected_cells[2]) = 1
  /\ detected_cells[2][1].fc - detected_cells[1][1].fc = 10
  /\ SamePhysicalCell(detected_cells[1][1], detected_cells[2][1])

\* C12: every entry of cells_final equals, in all its fields, one confirmed
\* candidate of detected_cells; and when two adjacent center frequencies
\* each yield one confirmed candidate, of equal n_id_cell and less than
\* 1 MHz apart, cells_final has exactly one entry, equal in all its fields
\* to the candidate of higher pss_pow.
C12_ReportEntriesAreCandidates ==
  /\ DedupFinished =>
       \A i \in 1..Len(cells_final) :
         \E j \in 1..Len(Flatten(detected_cells)) :
           cells_final[i] = Flatten(detected_cells)[j]
  /\ TwoAdjacentSameCell =>
       LET a == detected_cells[1][1]
           b == detected_cells[2][1]
       IN /\ Len(cells_final) = 1
          /\ cells_final[1] \in {a, b}
          /\ cells_final[1].pss_pow >= a.pss_pow
          /\ cells_final[1].pss_pow >= b.pss_pow
          /\ a.pss_pow > b.pss_pow => cells_final[1] = a
          /\ b.pss_pow > a.pss_pow => cells_final[1] = b

\* Witness of C12: the run ended with the candidate of the second center
\* frequency, the stronger one, replacing that of the first, the two
\* differing in more than their power.
C12_Witness ==
  /\ pc = "exit"
  /\ TwoAdjacentSameCell
  /\ detected_cells[2][1].pss_pow > detected_cells[1][1].pss_pow
  /\ detected_cells[2][1].freq_superfine # detected_cells[1][1].freq_superfine
  /\ cells_final = <<detected_cells[2][1]>>

\* The lines printed for the cells, in order.
Rows == SelectSeq(log, LAMBDA e : e.op = "report_row")

\* C13: the report prints one line per entry of cells_final, and the
\* correction factor of each line is previous_correction * fc /
\* (fc - freq_superfine) for the fc and freq_superfine of its cell, where
\* previous_correction is the correction of the command line, the one
\* every capture_data of the run was given.
C13_CorrectionFactor ==
  /\ \A i \in 1..Len(Captures) : Captures[i].correction = argv.c
  /\ pc = "exit" /\ exit_code = <<ExitSuccess>> =>
       /\ Len(Rows) = Len(cells_final)
       /\ \A i \in 1..Len(Rows) :
            LET c == cells_final[i]
                f == Rows[i].correction_new
            IN /\ Rows[i].cell = c
               /\ f.correction = argv.c
               /\ f.true_location * (c.fc - c.freq_superfine)
                    = c.fc * f.crystal_freq_actual
               /\ (c.fc - c.freq_superfine # 0) <=> (f.crystal_freq_actual # 0)

\* Witness of C13: a line was printed for a cell with a nonzero
\* freq_superfine, in a run whose correction was not 1.0.
C13_Witness ==
  /\ pc = "exit"
  /\ argv.c # 1000000
  /\ \E i \in 1..Len(Rows) :
       /\ Rows[i].cell.freq_superfine # 0
       /\ Rows[i].cell.fc - Rows[i].cell.freq_superfine # 0
       /\ Rows[i].correction_new.correction = argv.c

----------------------------------------------------------------------------
(* Properties of the threshold.                                            *)

\* The threshold computations made so far, in order.
Thresholds == SelectSeq(log, LAMBDA e : e.op = "xcorr_pss")

\* C14 as stated: of two threshold computations with equal n_comb_xc the
\* one with the larger sp_incoherent has the larger or equal Z_th1, and of
\* two with equal sp_incoherent the one with the larger n_comb_xc has the
\* larger or equal Z_th1.
C14_IncreasingInBoth ==
  \A i, j \in 1..Len(Thresholds) :
    LET a == Thresholds[i]
        b == Thresholds[j]
    IN /\ (a.n_comb_xc = b.n_comb_xc /\ a.sp_incoherent < b.sp_incoherent)
            => ~LessQ(b.Z_th1, a.Z_th1)
       /\ (a.sp_incoherent = b.sp_incoherent /\ a.n_comb_xc < b.n_comb_xc)
            => ~LessQ(b.Z_th1, a.Z_th1)

\* C14 amended: Z_th1 increases with sp_incoherent at equal n_comb_xc, and
\* at equal sp_incoherent it does not increase with n_comb_xc: it decreases
\* when sp_incoherent is positive and stays zero when sp_incoherent is zero.
C14_IncreasingInNoiseDecreasingInCount ==
  \A i, j \in 1..Len(Thresholds) :
    LET a == Thresholds[i]
        b == Thresholds[j]
    IN /\ (a.n_comb_xc = b.n_comb_xc /\ a.sp_incoherent < b.sp_incoherent)
            => LessQ(a.Z_th1, b.Z_th1)
       /\ (a.sp_incoherent = b.sp_incoherent /\ a.n_comb_xc < b.n_comb_xc)
            => IF a.sp_incoherent > 0
               THEN LessQ(b.Z_th1, a.Z_th1)
               ELSE a.Z_th1 = b.Z_th1

\* Witness of C14: two center frequencies with the same positive noise
\* power, the second with more correlations combined and a lower threshold.
C14_Witness ==
  /\ Len(Thresholds) = 2
  /\ Thresholds[1].sp_incoherent = Thresholds[2].sp_incoherent
  /\ Thresholds[1].sp_incoherent > 0
  /\ Thresholds[1].n_comb_xc < Thresholds[2].n_comb_xc
  /\ LessQ(Thresholds[2].Z_th1, Thresholds[1].Z_th1)

----------------------------------------------------------------------------
(* Properties of the candidate loop.                                       *)

\* The number of calls of stage op made on raw peak u.
Count(op, u) == Len(SelectSeq(log, LAMBDA e : e.op = op /\ e.uid = u))

\* The raw peaks of the current center frequency the loop has not reached.
Pending ==
  IF pc = "sss_detect"
  THEN {CurList[j].uid : j \in iterator..Len(CurList)}
  ELSE IF pc = "pss_sss_foe"
  THEN {CurList[j].uid : j \in (iterator + 1)..Len(CurList)}
  ELSE {}

\* The peaks sss_detect was called on, in the order of the calls.
Examined ==
  LET cs == SelectSeq(log, LAMBDA e : e.op = "sss_detect")
  IN [i \in 1..Len(cs) |-> cs[i].uid]

\* C15: no stage is invoked more than once on a raw peak; a raw peak the
\* loop has not reached has not been examined and every other raw peak
\* has been examined exactly once, so that when the loop of a center
\* frequency ends each of its peaks was examined once; and the peaks are
\* examined in the order peak_search returned them.
C15_NoRetriesNoSkips ==
  /\ \A u \in 1..next_uid : \A k \in 1..Len(Stages) : Count(Stages[k], u) <= 1
  /\ \A u \in 1..next_uid :
       Count("sss_detect", u) = IF u \in Pending THEN 0 ELSE 1
  /\ \A i \in 1..(Len(Examined) - 1) : Examined[i] < Examined[i + 1]

\* Witness of C15: the run is over, a center frequency had two raw peaks,
\* the first was rejected by sss_detect and the second was examined.
C15_Witness ==
  /\ pc = "exit"
  /\ next_uid = 2
  /\ \E i, j \in 1..Len(log) :
       /\ i < j
       /\ log[i].op = "sss_detect" /\ log[i].uid = 1 /\ log[i].ret = -1
       /\ log[j].op = "sss_detect" /\ log[j].uid = 2
       /\ log[i].fci = log[j].fci

Confirmed(c) == c.n_id_1 # -1 /\ c.n_rb_dl # -1

\* The raw peaks of sweep position f for which decode_mib succeeded.
ConfirmedAt(f) ==
  {u \in 1..next_uid :
     \E i \in 1..Len(log) :
       /\ log[i].op = "decode_mib" /\ log[i].uid = u
       /\ log[i].fci = f /\ log[i].ret # -1}

\* C16: when the loop is about to examine a candidate, every element of
\* detected_cells[fci] before the iterator is confirmed and was not
\* rejected; and once the loop of a center frequency has ended its list
\* holds exactly the confirmed candidates of that frequency, in peak_search
\* order.
C16_RejectedRemovedAtOnce ==
  /\ pc = "sss_detect" =>
       \A j \in 1..Len(CurList) :
         j < iterator => Confirmed(CurList[j]) /\ ~Rejected(CurList[j].uid)
  /\ \A f \in 1..Len(detected_cells) :
       f <= fci =>
         LET lst == detected_cells[f]
         IN /\ \A j \in 1..Len(lst) : Confirmed(lst[j])
            /\ \A j \in 1..(Len(lst) - 1) : lst[j].uid < lst[j + 1].uid
            /\ {lst[j].uid : j \in 1..Len(lst)} = ConfirmedAt(f - 1)

\* Witness of C16: the loop is about to look for a second candidate, the
\* first raw peak of this center frequency was rejected and removed, and
\* the one before the iterator is the confirmed second peak.
C16_Witness ==
  /\ pc = "sss_detect"
  /\ iterator = 2
  /\ Len(CurList) = 1
  /\ CurList[1].uid = 2
  /\ Rejected(1)
  /\ \E i \in 1..Len(log) : log[i].uid = 1 /\ log[i].fci = fci

----------------------------------------------------------------------------
(* Properties of the sweep.                                                *)

SweepOps == {"capture_data", "xcorr_pss", "peak_search"} \cup Range(Stages)

\* The calls of the sweep made so far, in order.
SweepCalls == SelectSeq(log, LAMBDA e : e.op \in SweepOps)

\* The calls cs go through the sweep positions one at a time and in order:
\* the first is the capture of position 0, every later capture is that of
\* the position after the one of the call before it, and every other call
\* belongs to the position of the call before it.
OneAtATime(cs) ==
  \A k \in 1..Len(cs) :
    IF k = 1
    THEN cs[k].op = "capture_data" /\ cs[k].fci = 0
    ELSE IF cs[k].op = "capture_data"
    THEN cs[k].fci = cs[k - 1].fci + 1
    ELSE cs[k].fci = cs[k - 1].fci

\* C17: the center frequencies are processed one at a time in sweep order,
\* each captured exactly once and before its other calls, all calls of one
\* frequency made before the capture of the next; every call works on the
\* buffer captured for its own center frequency; and dedup is called only
\* after every center frequency of fc_search_set was processed.
C17_OneFrequencyAtATime ==
  /\ OneAtATime(SweepCalls)
  /\ \A k \in 1..Len(SweepCalls) :
       SweepCalls[k].buf = elem(fc_search_set, SweepCalls[k].fci)
  /\ \A k \in 1..Len(log) :
       log[k].op = "dedup" =>
         /\ Len(Captures) = length(fc_search_set)
         /\ \A j \in 1..Len(log) : log[j].op \in SweepOps => j < k

\* The run went through the whole sweep and ended well: every iteration of
\* the loop over the center frequencies made its capture, every raw peak
\* was examined, dedup and the report were reached and the exit code is 0.
FinishedWell ==
  /\ pc = "exit"
  /\ exit_code = <<ExitSuccess>>
  /\ Len(Captures) = n_fc
  /\ \A u \in 1..next_uid : Count("sss_detect", u) = 1
  /\ \E i, j \in 1..Len(log) :
       i < j /\ log[i].op = "dedup" /\ log[j].op = "report"

\* C18: from every point of a run past the command line, whatever raw
\* peaks peak_search returns and whichever of them sss_detect and
\* decode_mib reject, the run goes on through the remaining candidates and
\* center frequencies and eventually reaches dedup, the report and exit
\* code zero.
C18_RunFinishes == (pc \notin {"parse", "exit"}) ~> FinishedWell

\* Witness of C18: a run ended well in which the raw peak of the first
\* center frequency was rejected and a peak of the second was examined
\* after it.
C18_Witness ==
  /\ FinishedWell
  /\ n_fc = 2
  /\ Rejected(1)
  /\ \E i \in 1..Len(log) : log[i].uid = 1 /\ log[i].fci = 0
  /\ \E i \in 1..Len(log) : log[i].uid = 2 /\ log[i].fci = 1

----------------------------------------------------------------------------
(* Properties of the steps of dedup.                                       *)

\* The candidates in the order of the claim: center frequency by center
\* frequency in sweep order, each list in list order.
RECURSIVE InSweepOrder(_)
InSweepOrder(t) ==
  IF t = 0 THEN <<>> ELSE InSweepOrder(t - 1) \o detected_cells[t]

\* cells_final after the first k candidates were processed.
After(k) == DedupAll(<<>>, SubSeq(InSweepOrder(Len(detected_cells)), 1, k))

\* The entries of list b that are the same physical cell as c.
Hits(b, c) == {i \in 1..Len(b) : SamePhysicalCell(c, b[i])}

\* The candidates that matched no entry when their turn came.
Unmatched ==
  {k \in 1..Len(InSweepOrder(Len(detected_cells))) :
     Hits(After(k - 1), InSweepOrder(Len(detected_cells))[k]) = {}}

\* C19: dedup processes the candidates in sweep order and list order; a
\* candidate that matches no entry is appended at the end, any other
\* changes at most the first entry it matches, which it overwrites when
\* its pss_pow is strictly greater; every other entry and the order of the
\* entries stay as they were, the number of entries never decreases, and
\* the j-th entry is the place the j-th unmatched candidate was appended
\* at.
C19_AppendOrOverwriteFirst ==
  DedupFinished =>
    LET cs == InSweepOrder(Len(detected_cells))
    IN /\ cells_final = After(Len(cs))
       /\ \A k \in 1..Len(cs) :
            LET b == After(k - 1)
                a == After(k)
                c == cs[k]
                hits == Hits(b, c)
            IN /\ Len(a) >= Len(b)
               /\ IF hits = {}
                  THEN a = Append(b, c)
                  ELSE /\ Len(a) = Len(b)
                       /\ \A i \in 1..Len(b) :
                            a[i] = IF /\ \A h \in hits : i <= h
                                      /\ i \in hits
                                      /\ c.pss_pow > b[i].pss_pow
                                   THEN c ELSE b[i]
       /\ Len(cells_final) = Cardinality(Unmatched)
       /\ \A k \in Unmatched :
            After(k)[Cardinality({j \in Unmatched : j <= k})] = cs[k]

\* Witness of C19: the third candidate matched both entries of the list
\* and overwrote the first of them only.
C19_Witness ==
  /\ DedupFinished
  /\ Len(InSweepOrder(Len(detected_cells))) = 3
  /\ Len(After(2)) = 2
  /\ Hits(After(2), InSweepOrder(Len(detected_cells))[3]) = {1, 2}
  /\ cells_final = <<InSweepOrder(Len(detected_cells))[3], After(2)[2]>>

\* C20: for every confirmed candidate handed to dedup, cells_final has an
\* entry of the same n_id_cell whose pss_pow is at least the candidate's;
\* the n_id_cell values of cells_final are those of the candidates; and
\* cells_final has no more entries than there are candidates.
C20_NoIdentityLost ==
  DedupFinished =>
    LET cs == InSweepOrder(Len(detected_cells))
    IN /\ \A j \in 1..Len(cs) :
            \E i \in 1..Len(cells_final) :
              /\ n_id_cell(cells_final[i]) = n_id_cell(cs[j])
              /\ cells_final[i].pss_pow >= cs[j].pss_pow
       /\ {n_id_cell(cells_final[i]) : i \in 1..Len(cells_final)}
            = {n_id_cell(cs[j]) : j \in 1..Len(cs)}
       /\ Len(cells_final) <= Len(cs)

\* Witness of C20: of three candidates of two identities, one was merged
\* away, a weaker one of an identity that is still in cells_final.
C20_Witness ==
  /\ DedupFinished
  /\ Len(InSweepOrder(Len(detected_cells))) = 3
  /\ Len(cells_final) = 2
  /\ n_id_cell(cells_final[1]) # n_id_cell(cells_final[2])
  /\ \E j \in 1..3 :
       /\ \A i \in 1..2 : InSweepOrder(Len(detected_cells))[j] # cells_final[i]
       /\ \E i \in 1..2 :
            InSweepOrder(Len(detected_cells))[j].pss_pow
              < cells_final[i].pss_pow

====
